---- MODULE Spec2Model ----
(***************************************************************************)
(* Model of the get-ip service (InvictusNavarchus/get-ip).                 *)
(*                                                                         *)
(* The service reads a client address out of proxy headers and the         *)
(* transport peer address (getClientIP), and, on the routes /, /ip and     *)
(* /ip/plain, asks external echo services for a public address when only   *)
(* private addresses were seen (getPublicIPFallback).                      *)
(*                                                                         *)
(* A JavaScript string is modelled as the sequence of its characters, so   *)
(* that startsWith, includes, split, trim, substring and the two regular   *)
(* expressions are computed character by character.  undefined, null and   *)
(* the empty string are all falsy in the code's tests and are all written  *)
(* as the empty sequence.                                                  *)
(***************************************************************************)
EXTENDS Integers, Sequences, FiniteSets, TLC

(***************************************************************************)
(* Strings                                                                 *)
(***************************************************************************)

\* undefined / null / "" : every falsy string value of the code
Undefined == <<>>

\* the sentinel the result starts from
Unknown == <<"U", "n", "k", "n", "o", "w", "n">>

Digits == {"0", "1", "2", "3", "4", "5", "6", "7", "8", "9"}

HexDigits == Digits \cup {"a", "b", "c", "d", "e", "f", "A", "B", "C", "D", "E", "F"}

Whitespace == {" ", "\t", "\n", "\r"}

\* String.prototype.startsWith
StartsWith(s, p) == Len(s) >= Len(p) /\ SubSeq(s, 1, Len(p)) = p

\* String.prototype.includes
Includes(s, p) == \E i \in 1..(Len(s) - Len(p) + 1) : SubSeq(s, i, i + Len(p) - 1) = p

\* String.prototype.substring(n)
Substring(s, n) == SubSeq(s, n + 1, Len(s))

\* String.prototype.trim
RECURSIVE TrimStart(_)
TrimStart(s) == IF s # <<>> /\ Head(s) \in Whitespace THEN TrimStart(Tail(s)) ELSE s

RECURSIVE TrimEnd(_)
TrimEnd(s) ==
    IF s # <<>> /\ s[Len(s)] \in Whitespace THEN TrimEnd(SubSeq(s, 1, Len(s) - 1)) ELSE s

Trim(s) == TrimEnd(TrimStart(s))

\* String.prototype.split(c) for a one-character separator: the sequence of pieces
RECURSIVE SplitFrom(_, _, _)
SplitFrom(s, c, piece) ==
    IF s = <<>> THEN <<piece>>
    ELSE IF Head(s) = c THEN <<piece>> \o SplitFrom(Tail(s), c, <<>>)
    ELSE SplitFrom(Tail(s), c, Append(piece, Head(s)))

Split(s, c) == SplitFrom(s, c, <<>>)

DigitValue(c) ==
    CASE c = "0" -> 0 [] c = "1" -> 1 [] c = "2" -> 2 [] c = "3" -> 3 [] c = "4" -> 4
      [] c = "5" -> 5 [] c = "6" -> 6 [] c = "7" -> 7 [] c = "8" -> 8 [] c = "9" -> 9

\* Number(s) for a string of decimal digits
RECURSIVE ToNumber(_)
ToNumber(s) ==
    IF s = <<>> THEN 0
    ELSE 10 * ToNumber(SubSeq(s, 1, Len(s) - 1)) + DigitValue(s[Len(s)])

(***************************************************************************)
(* Classification                                                          *)
(***************************************************************************)

\* one group of ipv4Regex: 25[0-5] | 2[0-4][0-9] | [01]?[0-9][0-9]?
OctetMatches(p) ==
    /\ Len(p) \in 1..3
    /\ \A i \in 1..Len(p) : p[i] \in Digits
    /\ Len(p) = 3 =>
          \/ p[1] \in {"0", "1"}
          \/ p[1] = "2" /\ p[2] \in {"0", "1", "2", "3", "4"}
          \/ p[1] = "2" /\ p[2] = "5" /\ p[3] \in {"0", "1", "2", "3", "4", "5"}

\* ipv4Regex.test(ip): three groups each followed by a dot, then a fourth group
isIPv4(ip) ==
    LET parts == Split(ip, ".")
    IN  Len(parts) = 4 /\ \A i \in 1..4 : OctetMatches(parts[i])

\* [0-9a-fA-F]{1,4}
HextetMatches(p) == Len(p) \in 1..4 /\ \A i \in 1..Len(p) : p[i] \in HexDigits

\* (?:[0-9a-fA-F]{1,4}:)*  matching the whole of s
HextetColonStar(s) ==
    \/ s = <<>>
    \/ /\ s[Len(s)] = ":"
       /\ LET groups == Split(SubSeq(s, 1, Len(s) - 1), ":")
          IN  \A i \in 1..Len(groups) : HextetMatches(groups[i])

\* (?:[0-9a-fA-F]{1,4}:)*[0-9a-fA-F]{1,4}  matching the whole of s
HextetColonStarHextet(s) ==
    LET groups == Split(s, ":")
    IN  \A i \in 1..Len(groups) : HextetMatches(groups[i])

\* ipv6Regex.test(ip): the four alternatives of the expression
ipv6RegexTest(ip) ==
    \/ LET groups == Split(ip, ":")
       IN  Len(groups) = 8 /\ \A i \in 1..8 : HextetMatches(groups[i])
    \/ ip = <<":", ":", "1">>
    \/ ip = <<":", ":">>
    \/ \E i \in 1..(Len(ip) - 1) :
          /\ SubSeq(ip, i, i + 1) = <<":", ":">>
          /\ HextetColonStar(SubSeq(ip, 1, i - 1))
          /\ HextetColonStarHextet(SubSeq(ip, i + 2, Len(ip)))

isIPv6(ip) ==
    \/ ipv6RegexTest(ip)
    \/ StartsWith(ip, <<":", ":">>)
    \/ Includes(ip, <<":", ":">>)

\* isPrivateOrLocalIPv4 with the upper end of 172.16.0.0/12 left out
isPrivateOrLocalIPv4Below31(ip) ==
    IF ~isIPv4(ip) THEN FALSE
    ELSE LET split == Split(ip, ".")
             parts == [i \in 1..4 |-> ToNumber(split[i])]
         IN  \/ parts[1] = 127
             \/ parts[1] = 10
             \/ parts[1] = 172 /\ parts[2] >= 16 /\ parts[2] < 31
             \/ parts[1] = 192 /\ parts[2] = 168
             \/ parts[1] = 169 /\ parts[2] = 254

isPrivateOrLocalIPv4(ip) ==
    IF ~isIPv4(ip) THEN FALSE
    ELSE LET split == Split(ip, ".")
             parts == [i \in 1..4 |-> ToNumber(split[i])]
         IN  \/ parts[1] = 127
             \/ parts[1] = 10
             \/ parts[1] = 172 /\ parts[2] >= 16 /\ parts[2] <= 31
             \/ parts[1] = 192 /\ parts[2] = 168
             \/ parts[1] = 169 /\ parts[2] = 254

isPrivateOrLocalIPv6(ip) ==
    IF ~isIPv6(ip) THEN FALSE
    ELSE \/ ip = <<":", ":", "1">>
         \/ StartsWith(ip, <<"f", "c">>)
         \/ StartsWith(ip, <<"f", "d">>)
         \/ StartsWith(ip, <<"f", "e", "8", "0", ":">>)
         \/ StartsWith(ip, <<":", ":">>)

(***************************************************************************)
(* The extractor: shouldPrioritizeIP, processIP, getClientIP               *)
(***************************************************************************)

\* const result: IPInfo = { primary: 'Unknown', version: 'Unknown' }
InitialResult ==
    [ipv4 |-> Undefined, ipv6 |-> Undefined, primary |-> Unknown, version |-> "Unknown"]

\* shouldPrioritizeIP that keeps whatever is held: the first value wins
shouldPrioritizeIPFirstWins(newIP, currentIP) ==
    currentIP = Undefined \/ currentIP = Unknown

\* shouldPrioritizeIP without the preference of IPv4 over a held IPv6 value
shouldPrioritizeIPNoCrossFamily(newIP, currentIP) ==
    IF currentIP = Undefined \/ currentIP = Unknown THEN TRUE
    ELSE LET newIsIPv4 == isIPv4(newIP)
             currentIsIPv4 == isIPv4(currentIP)
         IN  IF newIsIPv4 /\ currentIsIPv4
             THEN ~isPrivateOrLocalIPv4(newIP) /\ isPrivateOrLocalIPv4(currentIP)
             ELSE IF ~newIsIPv4 /\ ~currentIsIPv4
             THEN ~isPrivateOrLocalIPv6(newIP) /\ isPrivateOrLocalIPv6(currentIP)
             ELSE FALSE

\* shouldPrioritizeIP where a new value of the tier of the held one replaces it
shouldPrioritizeIPTiesReplace(newIP, currentIP) ==
    IF currentIP = Undefined \/ currentIP = Unknown THEN TRUE
    ELSE LET newIsIPv4 == isIPv4(newIP)
             currentIsIPv4 == isIPv4(currentIP)
         IN  IF newIsIPv4 /\ currentIsIPv4
             THEN ~(isPrivateOrLocalIPv4(newIP) /\ ~isPrivateOrLocalIPv4(currentIP))
             ELSE IF ~newIsIPv4 /\ ~currentIsIPv4
             THEN ~(isPrivateOrLocalIPv6(newIP) /\ ~isPrivateOrLocalIPv6(currentIP))
             ELSE newIsIPv4 /\ ~currentIsIPv4

shouldPrioritizeIP(newIP, currentIP) ==
    IF currentIP = Undefined \/ currentIP = Unknown THEN TRUE
    ELSE LET newIsIPv4 == isIPv4(newIP)
             currentIsIPv4 == isIPv4(currentIP)
         IN  IF newIsIPv4 /\ currentIsIPv4
             THEN ~isPrivateOrLocalIPv4(newIP) /\ isPrivateOrLocalIPv4(currentIP)
             ELSE IF ~newIsIPv4 /\ ~currentIsIPv4
             THEN ~isPrivateOrLocalIPv6(newIP) /\ isPrivateOrLocalIPv6(currentIP)
             ELSE newIsIPv4 /\ ~currentIsIPv4

\* cleanIP with the prefix left in place
cleanIPKeepsPrefix(ip) == ip

\* cleanIP: the candidate without a leading "::ffff:"
cleanIP(ip) ==
    IF StartsWith(ip, <<":", ":", "f", "f", "f", "f", ":">>) THEN Substring(ip, 7) ELSE ip

\* processIP with the test on primary left out: every IPv4 candidate becomes primary
processIPPrimaryAlways(result, ip) ==
    IF ip = Undefined \/ ip = Unknown THEN result
    ELSE IF isIPv4(cleanIP(ip))
    THEN LET slot == IF result.ipv4 = Undefined \/ shouldPrioritizeIP(cleanIP(ip), result.ipv4)
                     THEN [result EXCEPT !.ipv4 = cleanIP(ip)]
                     ELSE result
         IN  [slot EXCEPT !.primary = cleanIP(ip), !.version = "IPv4"]
    ELSE IF isIPv6(ip)
    THEN LET slot == IF result.ipv6 = Undefined \/ shouldPrioritizeIP(ip, result.ipv6)
                     THEN [result EXCEPT !.ipv6 = ip]
                     ELSE result
         IN  IF shouldPrioritizeIP(ip, slot.primary)
             THEN [slot EXCEPT !.primary = ip, !.version = "IPv6"]
             ELSE slot
    ELSE result

\* processIP with the update of primary left out of the IPv6 branch
processIPNoPrimaryIPv6(result, ip) ==
    IF ip = Undefined \/ ip = Unknown THEN result
    ELSE IF isIPv4(cleanIP(ip))
    THEN LET slot == IF result.ipv4 = Undefined \/ shouldPrioritizeIP(cleanIP(ip), result.ipv4)
                     THEN [result EXCEPT !.ipv4 = cleanIP(ip)]
                     ELSE result
         IN  IF shouldPrioritizeIP(cleanIP(ip), slot.primary)
             THEN [slot EXCEPT !.primary = cleanIP(ip), !.version = "IPv4"]
             ELSE slot
    ELSE IF isIPv6(ip)
    THEN IF result.ipv6 = Undefined \/ shouldPrioritizeIP(ip, result.ipv6)
         THEN [result EXCEPT !.ipv6 = ip]
         ELSE result
    ELSE result

\* processIP(ip) applied to the result object: the result object after the call
processIP(result, ip) ==
    IF ip = Undefined \/ ip = Unknown THEN result
    ELSE IF isIPv4(cleanIP(ip))
    THEN LET slot == IF result.ipv4 = Undefined \/ shouldPrioritizeIP(cleanIP(ip), result.ipv4)
                     THEN [result EXCEPT !.ipv4 = cleanIP(ip)]
                     ELSE result
         IN  IF shouldPrioritizeIP(cleanIP(ip), slot.primary)
             THEN [slot EXCEPT !.primary = cleanIP(ip), !.version = "IPv4"]
             ELSE slot
    ELSE IF isIPv6(ip)
    THEN LET slot == IF result.ipv6 = Undefined \/ shouldPrioritizeIP(ip, result.ipv6)
                     THEN [result EXCEPT !.ipv6 = ip]
                     ELSE result
         IN  IF shouldPrioritizeIP(ip, slot.primary)
             THEN [slot EXCEPT !.primary = ip, !.version = "IPv6"]
             ELSE slot
    ELSE result

\* forwarded.split(',').map(ip => ip.trim())
SplitTrim(header) ==
    LET pieces == Split(header, ",") IN [i \in 1..Len(pieces) |-> Trim(pieces[i])]

\* a header read as one value: processed when it is truthy
Single(header) == IF header # Undefined THEN <<header>> ELSE <<>>

\* a forwarded-for header: its first entry is processed when it is truthy
FirstEntry(header) ==
    IF header # Undefined /\ SplitTrim(header)[1] # Undefined
    THEN <<SplitTrim(header)[1]>>
    ELSE <<>>

\* Candidates with the forwarded-for headers read before the other headers
CandidatesForwardedFirst(req) ==
    FirstEntry(req.forwarded) \o FirstEntry(req.xOriginalForwardedFor)
      \o Single(req.cfConnectingIP) \o Single(req.trueClientIP) \o Single(req.realIP)
      \o Single(req.xClientIP) \o Single(req.xClusterClientIP)
      \o Single(req.remoteAddress)

\* The arguments of the calls of processIP that getClientIP makes, in order
Candidates(req) ==
    Single(req.cfConnectingIP) \o Single(req.trueClientIP) \o Single(req.realIP)
      \o Single(req.xClientIP) \o Single(req.xClusterClientIP)
      \o FirstEntry(req.forwarded) \o FirstEntry(req.xOriginalForwardedFor)
      \o Single(req.remoteAddress)

RECURSIVE ProcessAll(_, _)
ProcessAll(result, ips) ==
    IF ips = <<>> THEN result ELSE ProcessAll(processIP(result, Head(ips)), Tail(ips))

\* the result object after the first n calls of processIP
ResultAfter(req, n) == ProcessAll(InitialResult, SubSeq(Candidates(req), 1, n))

getClientIP(req) == ProcessAll(InitialResult, Candidates(req))

\* hasOnlyPrivateIPs that looks at the ipv4 slot only when it is set
hasOnlyPrivateIPsByIPv4(ipInfo) ==
    LET hasPublicIPv4 == ipInfo.ipv4 # Undefined /\ ~isPrivateOrLocalIPv4(ipInfo.ipv4)
        hasPublicIPv6 == ipInfo.ipv6 # Undefined /\ ~isPrivateOrLocalIPv6(ipInfo.ipv6)
    IN  /\ ~hasPublicIPv4
        /\ ipInfo.ipv4 = Undefined => ~hasPublicIPv6
        /\ (ipInfo.ipv4 # Undefined \/ ipInfo.ipv6 # Undefined)

\* hasOnlyPrivateIPs without the test that an address is held at all
hasOnlyPrivateIPsOrNone(ipInfo) ==
    LET hasPublicIPv4 == ipInfo.ipv4 # Undefined /\ ~isPrivateOrLocalIPv4(ipInfo.ipv4)
        hasPublicIPv6 == ipInfo.ipv6 # Undefined /\ ~isPrivateOrLocalIPv6(ipInfo.ipv6)
    IN  ~hasPublicIPv4 /\ ~hasPublicIPv6

hasOnlyPrivateIPs(ipInfo) ==
    LET hasPublicIPv4 == ipInfo.ipv4 # Undefined /\ ~isPrivateOrLocalIPv4(ipInfo.ipv4)
        hasPublicIPv6 == ipInfo.ipv6 # Undefined /\ ~isPrivateOrLocalIPv6(ipInfo.ipv6)
    IN  ~hasPublicIPv4 /\ ~hasPublicIPv6 /\ (ipInfo.ipv4 # Undefined \/ ipInfo.ipv6 # Undefined)

(***************************************************************************)
(* Requests the model sends                                                *)
(***************************************************************************)

\* how many of the seven headers a request carries at most
MaxHeaders == 2

IP_8_8_8_8 == <<"8", ".", "8", ".", "8", ".", "8">>

IP_1_1_1_1 == <<"1", ".", "1", ".", "1", ".", "1">>

IP_10_0_0_5 == <<"1", "0", ".", "0", ".", "0", ".", "5">>

IP_192_168_1_9 == <<"1", "9", "2", ".", "1", "6", "8", ".", "1", ".", "9">>

IP_203_0_113_5 == <<"2", "0", "3", ".", "0", ".", "1", "1", "3", ".", "5">>

IP_198_51_100_7 == <<"1", "9", "8", ".", "5", "1", ".", "1", "0", "0", ".", "7">>

\* 2001:db8::1
IP6_2001_db8__1 == <<"2", "0", "0", "1", ":", "d", "b", "8", ":", ":", "1">>

\* 2001:db8:0:0:0:0:0:1
IP6_2001_db8_0_0_0_0_0_1 ==
    << "2", "0", "0", "1", ":", "d", "b", "8", ":", "0", ":", "0", ":", "0", ":", "0", ":",
       "0", ":", "1" >>

\* fe80::1
IP6_fe80__1 == <<"f", "e", "8", "0", ":", ":", "1">>

\* ::1
IP6__1 == <<":", ":", "1">>

\* ::ffff:203.0.113.5
IP6_Mapped_203_0_113_5 == <<":", ":", "f", "f", "f", "f", ":">> \o IP_203_0_113_5

\* values of cf-connecting-ip, true-client-ip, x-real-ip, x-client-ip, x-cluster-client-ip
HeaderValues == {Undefined, IP_8_8_8_8, IP_10_0_0_5, IP6_2001_db8__1, IP6_fe80__1}

\* values of x-forwarded-for and x-original-forwarded-for:
\* "10.0.0.5, 8.8.8.8", "1.1.1.1", ", 8.8.8.8" and "Unknown"
ForwardedValues ==
    { Undefined,
      IP_10_0_0_5 \o <<",", " ">> \o IP_8_8_8_8,
      IP_1_1_1_1,
      <<",", " ">> \o IP_8_8_8_8,
      Unknown }

\* values of the transport peer address
PeerValues ==
    {Undefined, IP6_Mapped_203_0_113_5, IP6__1, IP_192_168_1_9, IP6_2001_db8_0_0_0_0_0_1}

HeaderNames ==
    { "cfConnectingIP", "trueClientIP", "realIP", "xClientIP", "xClusterClientIP",
      "forwarded", "xOriginalForwardedFor" }

\* the header mappings of the requests: at most MaxHeaders headers present
RequestHeaders ==
    { h \in [ cfConnectingIP : HeaderValues, trueClientIP : HeaderValues,
              realIP : HeaderValues, xClientIP : HeaderValues,
              xClusterClientIP : HeaderValues, forwarded : ForwardedValues,
              xOriginalForwardedFor : ForwardedValues ] :
        Cardinality({n \in HeaderNames : h[n] # Undefined}) <= MaxHeaders }

\* req: the header mapping with the route and the peer address
\* (req.connection?.remoteAddress || req.socket?.remoteAddress || req.ip)
MakeRequest(route, h, peer) ==
    [ route |-> route, cfConnectingIP |-> h.cfConnectingIP, trueClientIP |-> h.trueClientIP,
      realIP |-> h.realIP, xClientIP |-> h.xClientIP,
      xClusterClientIP |-> h.xClusterClientIP, forwarded |-> h.forwarded,
      xOriginalForwardedFor |-> h.xOriginalForwardedFor, remoteAddress |-> peer ]

NoRequest == MakeRequest("none", [n \in HeaderNames |-> Undefined], Undefined)

\* bodies the echo services answer with: "198.51.100.7\n", "8.8.8.8", "10.0.0.5",
\* "<html>" and the empty body
ServiceBodies ==
    { Append(IP_198_51_100_7, "\n"), IP_8_8_8_8, IP_10_0_0_5,
      <<"<", "h", "t", "m", "l", ">">>, <<>> }

\* const services = [api.ipify.org, ipinfo.io, ifconfig.me]: their number
NumServices == 3

\* the handlers that can be in flight
NumRequests == 2

Requests == 1..NumRequests

(***************************************************************************)
(* State                                                                   *)
(***************************************************************************)

VARIABLES
    ENABLE_FALLBACK,  \* process.env.ENABLE_FALLBACK !== 'false', read once at startup
    pc,               \* where each handler is: idle, fetch, text, check, sent, rejected
    req,              \* the request each handler was called with
    ipInfo,           \* the route handler's ipInfo
    invoked,          \* whether the handler has called getPublicIPFallback
    service,          \* the index in services of the attempt under way
    timer,            \* the abort timer of that attempt: none, armed, cleared, fired
    ip,               \* the trimmed body read from the response
    outbound,         \* the services a GET was sent to, in the order sent
    fallbackIP,       \* what getPublicIPFallback returned
    response          \* the response sent

vars ==
    << ENABLE_FALLBACK, pc, req, ipInfo, invoked, service, timer, ip, outbound,
       fallbackIP, response >>

NoResponse == [status |-> 0, type |-> "none", body |-> [none |-> TRUE]]

Init ==
    /\ ENABLE_FALLBACK \in BOOLEAN
    /\ pc = [r \in Requests |-> "idle"]
    /\ req = [r \in Requests |-> NoRequest]
    /\ ipInfo = [r \in Requests |-> InitialResult]
    /\ invoked = [r \in Requests |-> FALSE]
    /\ service = [r \in Requests |-> 0]
    /\ timer = [r \in Requests |-> "none"]
    /\ ip = [r \in Requests |-> Undefined]
    /\ outbound = [r \in Requests |-> <<>>]
    /\ fallbackIP = [r \in Requests |-> Undefined]
    /\ response = [r \in Requests |-> NoResponse]

(***************************************************************************)
(* Responses                                                               *)
(***************************************************************************)

\* res.status(200).json({ip, ipv4: ipInfo.ipv4 || null, ipv6: ipInfo.ipv6 || null, version})
\* (the timestamp is left out)
JsonIpInfo(info) ==
    [ status |-> 200, type |-> "json",
      body |-> [ip |-> info.primary, ipv4 |-> info.ipv4, ipv6 |-> info.ipv6,
                version |-> info.version] ]

\* res.status(200).type('text/plain').send(ipInfo.primary)
PlainPrimary(info) == [status |-> 200, type |-> "text", body |-> [text |-> info.primary]]

\* what /, /ip and /ip/plain send for ipInfo
SerializeIpInfo(route, info) ==
    IF route = "/ip/plain" THEN PlainPrimary(info) ELSE JsonIpInfo(info)

\* SerializeFamily that answers 200 with the address, set or not
SerializeFamilyAlways200(family, plain, address) ==
    IF plain
    THEN [status |-> 200, type |-> "text", body |-> [text |-> address]]
    ELSE [status |-> 200, type |-> "json", body |-> [address |-> address]]

\* what /ipv4, /ipv6, /ipv4/plain and /ipv6/plain send for the address of their family
SerializeFamily(family, plain, address) ==
    IF address # Undefined
    THEN IF plain
         THEN [status |-> 200, type |-> "text", body |-> [text |-> address]]
         ELSE [status |-> 200, type |-> "json", body |-> [address |-> address]]
    ELSE IF plain
         THEN [status |-> 404, type |-> "text", body |-> [text |-> family]]
         ELSE [status |-> 404, type |-> "json", body |-> [error |-> family]]

\* Overwrite that builds the new object without the ipv6 detected before
OverwriteDropsIPv6(info, fallback) ==
    IF fallback # Undefined
    THEN [ipv4 |-> fallback, ipv6 |-> Undefined, primary |-> fallback, version |-> "IPv4"]
    ELSE info

\* if (fallbackIP) ipInfo = {ipv4: fallbackIP, ipv6: ipInfo.ipv6, primary: fallbackIP, version: 'IPv4'}
Overwrite(info, fallback) ==
    IF fallback # Undefined
    THEN [ipv4 |-> fallback, ipv6 |-> info.ipv6, primary |-> fallback, version |-> "IPv4"]
    ELSE info

(***************************************************************************)
(* getPublicIPFallback                                                     *)
(***************************************************************************)

\* Accepted without the test that the address is not private
AcceptedAnyIPv4(body) == body # Undefined /\ isIPv4(body)

\* ip && isIPv4(ip) && !isPrivateOrLocalIPv4(ip)
Accepted(body) == body # Undefined /\ isIPv4(body) /\ ~isPrivateOrLocalIPv4(body)

\* one pass of the loop begins: new AbortController, setTimeout(abort, 3000), fetch(service)
StartAttempt(r, k) ==
    /\ pc' = [pc EXCEPT ![r] = "fetch"]
    /\ service' = [service EXCEPT ![r] = k]
    /\ timer' = [timer EXCEPT ![r] = "armed"]
    /\ ip' = [ip EXCEPT ![r] = Undefined]
    /\ outbound' = [outbound EXCEPT ![r] = Append(@, k)]

\* Return with ipInfo held in one variable of the module that every handler awaiting
\* its lookup reads after it
ReturnShared(r, result, t) ==
    /\ pc' = [pc EXCEPT ![r] = "sent"]
    /\ fallbackIP' = [fallbackIP EXCEPT ![r] = result]
    /\ ipInfo' = [q \in Requests |->
                    IF q = r \/ pc[q] \in {"fetch", "text", "check"}
                    THEN Overwrite(ipInfo[r], result)
                    ELSE ipInfo[q]]
    /\ response' = [response EXCEPT ![r] = SerializeIpInfo(req[r].route, Overwrite(ipInfo[r], result))]
    /\ timer' = [timer EXCEPT ![r] = t]
    /\ ip' = [ip EXCEPT ![r] = Undefined]
    /\ UNCHANGED <<service, outbound>>

\* getPublicIPFallback returns result; the route handler, resumed, overwrites ipInfo
\* and sends the response
Return(r, result, t) ==
    /\ pc' = [pc EXCEPT ![r] = "sent"]
    /\ fallbackIP' = [fallbackIP EXCEPT ![r] = result]
    /\ ipInfo' = [ipInfo EXCEPT ![r] = Overwrite(@, result)]
    /\ response' = [response EXCEPT ![r] = SerializeIpInfo(req[r].route, Overwrite(ipInfo[r], result))]
    /\ timer' = [timer EXCEPT ![r] = t]
    /\ ip' = [ip EXCEPT ![r] = Undefined]
    /\ UNCHANGED <<service, outbound>>

\* Continue that passes over the service after the first
ContinueSkipsOne(r, t) ==
    IF service[r] < NumServices
    THEN /\ StartAttempt(r, IF service[r] = 1 THEN NumServices ELSE service[r] + 1)
         /\ UNCHANGED <<ipInfo, fallbackIP, response>>
    ELSE Return(r, Undefined, t)

\* the end of a pass that returned nothing: the next service, or return null after the last
Continue(r, t) ==
    IF service[r] < NumServices
    THEN StartAttempt(r, service[r] + 1) /\ UNCHANGED <<ipInfo, fallbackIP, response>>
    ELSE Return(r, Undefined, t)

\* no catch: the error leaves getPublicIPFallback and rejects the route handler
RethrowAttemptError(r, t) ==
    /\ pc' = [pc EXCEPT ![r] = "rejected"]
    /\ timer' = [timer EXCEPT ![r] = t]
    /\ UNCHANGED <<ipInfo, service, ip, outbound, fallbackIP, response>>

\* catch (error) { console.log(...); continue; } around one pass
CatchAttemptError(r, t) == Continue(r, t)

\* fetch resolves with a response: clearTimeout; a response that is not ok ends the pass
FetchResolves(r) ==
    /\ pc[r] = "fetch"
    /\ \E ok \in BOOLEAN :
          IF ok
          THEN /\ pc' = [pc EXCEPT ![r] = "text"]
               /\ timer' = [timer EXCEPT ![r] = "cleared"]
               /\ UNCHANGED <<ipInfo, service, ip, outbound, fallbackIP, response>>
          ELSE Continue(r, "cleared")
    /\ UNCHANGED <<ENABLE_FALLBACK, req, invoked>>

\* fetch rejects with a network error; the timer stays armed for a finished controller
FetchRejects(r) ==
    /\ pc[r] = "fetch"
    /\ CatchAttemptError(r, timer[r])
    /\ UNCHANGED <<ENABLE_FALLBACK, req, invoked>>

\* the 3000 ms timer fires: controller.abort() rejects the pending fetch
AbortTimerFires(r) ==
    /\ pc[r] = "fetch"
    /\ timer[r] = "armed"
    /\ CatchAttemptError(r, "fired")
    /\ UNCHANGED <<ENABLE_FALLBACK, req, invoked>>

\* response.text() resolves: const ip = (await response.text()).trim()
TextResolves(r) ==
    /\ pc[r] = "text"
    /\ \E body \in ServiceBodies :
          /\ ip' = [ip EXCEPT ![r] = Trim(body)]
          /\ pc' = [pc EXCEPT ![r] = "check"]
    /\ UNCHANGED <<ENABLE_FALLBACK, req, ipInfo, invoked, service, timer, outbound,
                   fallbackIP, response>>

\* response.text() rejects: the connection broke while the body was read
TextRejects(r) ==
    /\ pc[r] = "text"
    /\ CatchAttemptError(r, timer[r])
    /\ UNCHANGED <<ENABLE_FALLBACK, req, invoked>>

\* if (ip && isIPv4(ip) && !isPrivateOrLocalIPv4(ip)) return ip; otherwise the pass ends
CheckBody(r) ==
    /\ pc[r] = "check"
    /\ IF Accepted(ip[r]) THEN Return(r, ip[r], timer[r]) ELSE Continue(r, timer[r])
    /\ UNCHANGED <<ENABLE_FALLBACK, req, invoked>>

(***************************************************************************)
(* Route handlers                                                          *)
(***************************************************************************)

\* Requests are sent one at a time: a handler is called when none is in flight
OneAtATime(r) == \A q \in Requests : pc[q] = "idle" /\ r <= q

\* if (ENABLE_FALLBACK && hasOnlyPrivateIPs(ipInfo))
ShouldFallback(info) == ENABLE_FALLBACK /\ hasOnlyPrivateIPs(info)

\* the handler of /, /ip or /ip/plain called with request q, up to its response or
\* its await
IpRouteOn(r, q) ==
    LET info == getClientIP(q)
    IN  /\ req' = [req EXCEPT ![r] = q]
        /\ ipInfo' = [ipInfo EXCEPT ![r] = info]
        /\ IF ShouldFallback(info)
           THEN /\ invoked' = [invoked EXCEPT ![r] = TRUE]
                /\ StartAttempt(r, 1)
                /\ UNCHANGED <<fallbackIP, response>>
           ELSE /\ pc' = [pc EXCEPT ![r] = "sent"]
                /\ response' = [response EXCEPT ![r] = SerializeIpInfo(q.route, info)]
                /\ UNCHANGED <<invoked, service, timer, ip, outbound, fallbackIP>>
        /\ UNCHANGED ENABLE_FALLBACK

\* the handlers of /, /ip and /ip/plain on the requests the model sends
IpRoute(r, route) ==
    \E h \in RequestHeaders, peer \in PeerValues : IpRouteOn(r, MakeRequest(route, h, peer))

\* the handler of /ipv4, /ipv6, /ipv4/plain or /ipv6/plain called with request q
FamilyRouteOn(r, q, family, plain) ==
    LET info == getClientIP(q)
        address == IF family = "IPv4" THEN info.ipv4 ELSE info.ipv6
        message == IF family = "IPv4" THEN "No IPv4 address found"
                                      ELSE "No IPv6 address found"
    IN  /\ req' = [req EXCEPT ![r] = q]
        /\ ipInfo' = [ipInfo EXCEPT ![r] = info]
        /\ pc' = [pc EXCEPT ![r] = "sent"]
        /\ response' = [response EXCEPT ![r] = SerializeFamily(message, plain, address)]
        /\ UNCHANGED <<ENABLE_FALLBACK, invoked, service, timer, ip, outbound, fallbackIP>>

\* the handlers of /ipv4, /ipv6, /ipv4/plain and /ipv6/plain on the requests the
\* model sends
FamilyRoute(r, route, family, plain) ==
    \E h \in RequestHeaders, peer \in PeerValues :
        FamilyRouteOn(r, MakeRequest(route, h, peer), family, plain)

\* app.get('/')
GetRoot(r) == OneAtATime(r) /\ IpRoute(r, "/")

\* app.get('/ip')
GetIp(r) == OneAtATime(r) /\ IpRoute(r, "/ip")

\* app.get('/ip/plain')
GetIpPlain(r) == OneAtATime(r) /\ IpRoute(r, "/ip/plain")

\* app.get('/ipv4')
GetIpv4(r) == OneAtATime(r) /\ FamilyRoute(r, "/ipv4", "IPv4", FALSE)

\* app.get('/ipv6')
GetIpv6(r) == OneAtATime(r) /\ FamilyRoute(r, "/ipv6", "IPv6", FALSE)

\* app.get('/ipv4/plain')
GetIpv4Plain(r) == OneAtATime(r) /\ FamilyRoute(r, "/ipv4/plain", "IPv4", TRUE)

\* app.get('/ipv6/plain')
GetIpv6Plain(r) == OneAtATime(r) /\ FamilyRoute(r, "/ipv6/plain", "IPv6", TRUE)

\* the response is on the wire and the handler's locals are gone
Complete(r) ==
    /\ pc[r] = "sent"
    /\ pc' = [pc EXCEPT ![r] = "idle"]
    /\ req' = [req EXCEPT ![r] = NoRequest]
    /\ ipInfo' = [ipInfo EXCEPT ![r] = InitialResult]
    /\ invoked' = [invoked EXCEPT ![r] = FALSE]
    /\ service' = [service EXCEPT ![r] = 0]
    /\ timer' = [timer EXCEPT ![r] = "none"]
    /\ ip' = [ip EXCEPT ![r] = Undefined]
    /\ outbound' = [outbound EXCEPT ![r] = <<>>]
    /\ fallbackIP' = [fallbackIP EXCEPT ![r] = Undefined]
    /\ response' = [response EXCEPT ![r] = NoResponse]
    /\ UNCHANGED ENABLE_FALLBACK

Next ==
    \E r \in Requests :
        \/ GetRoot(r)
        \/ GetIp(r)
        \/ GetIpPlain(r)
        \/ GetIpv4(r)
        \/ GetIpv6(r)
        \/ GetIpv4Plain(r)
        \/ GetIpv6Plain(r)
        \/ FetchResolves(r)
        \/ FetchRejects(r)
        \/ AbortTimerFires(r)
        \/ TextResolves(r)
        \/ TextRejects(r)
        \/ CheckBody(r)
        \/ Complete(r)

Spec == Init /\ [][Next]_vars

\* Timers fire and the handler's own steps run; nothing makes a service answer
Fairness ==
    \A r \in Requests :
        /\ WF_vars(AbortTimerFires(r))
        /\ WF_vars(CheckBody(r))
        /\ WF_vars(Complete(r))

FairSpec == Init /\ [][Next]_vars /\ Fairness

(***************************************************************************)
(* src/index.ts: the variant of the service without the fallback, which    *)
(* reads x-forwarded-for, x-real-ip and the peer address                   *)
(***************************************************************************)

\* forwarded.split(',').map(ip => ip.trim()), every piece given to processIP
AllEntries(header) == IF header # Undefined THEN SplitTrim(header) ELSE <<>>

\* The arguments of the calls of processIP that this getClientIP makes, in order
CandidatesIndex(q) ==
    AllEntries(q.forwarded) \o Single(q.realIP) \o Single(q.remoteAddress)

getClientIPIndex(q) == ProcessAll(InitialResult, CandidatesIndex(q))

\* the handlers of /, /ip and /ip/plain
IndexIpRoute(r, route) ==
    /\ OneAtATime(r)
    /\ \E h \in RequestHeaders, peer \in PeerValues :
          LET q == MakeRequest(route, h, peer)
              info == getClientIPIndex(q)
          IN  /\ req' = [req EXCEPT ![r] = q]
              /\ ipInfo' = [ipInfo EXCEPT ![r] = info]
              /\ pc' = [pc EXCEPT ![r] = "sent"]
              /\ response' = [response EXCEPT ![r] = SerializeIpInfo(route, info)]
    /\ UNCHANGED <<ENABLE_FALLBACK, invoked, service, timer, ip, outbound, fallbackIP>>

\* the handlers of /ipv4, /ipv6, /ipv4/plain and /ipv6/plain
IndexFamilyRoute(r, route, family, plain) ==
    /\ OneAtATime(r)
    /\ \E h \in RequestHeaders, peer \in PeerValues :
          LET q == MakeRequest(route, h, peer)
              info == getClientIPIndex(q)
              address == IF family = "IPv4" THEN info.ipv4 ELSE info.ipv6
              message == IF family = "IPv4" THEN "No IPv4 address found"
                                            ELSE "No IPv6 address found"
          IN  /\ req' = [req EXCEPT ![r] = q]
              /\ ipInfo' = [ipInfo EXCEPT ![r] = info]
              /\ pc' = [pc EXCEPT ![r] = "sent"]
              /\ response' = [response EXCEPT ![r] = SerializeFamily(message, plain, address)]
    /\ UNCHANGED <<ENABLE_FALLBACK, invoked, service, timer, ip, outbound, fallbackIP>>

IndexGetRoot(r) == IndexIpRoute(r, "/")

IndexGetIp(r) == IndexIpRoute(r, "/ip")

IndexGetIpPlain(r) == IndexIpRoute(r, "/ip/plain")

IndexGetIpv4(r) == IndexFamilyRoute(r, "/ipv4", "IPv4", FALSE)

IndexGetIpv6(r) == IndexFamilyRoute(r, "/ipv6", "IPv6", FALSE)

IndexGetIpv4Plain(r) == IndexFamilyRoute(r, "/ipv4/plain", "IPv4", TRUE)

IndexGetIpv6Plain(r) == IndexFamilyRoute(r, "/ipv6/plain", "IPv6", TRUE)

NextIndex ==
    \E r \in Requests :
        \/ IndexGetRoot(r)
        \/ IndexGetIp(r)
        \/ IndexGetIpPlain(r)
        \/ IndexGetIpv4(r)
        \/ IndexGetIpv6(r)
        \/ IndexGetIpv4Plain(r)
        \/ IndexGetIpv6Plain(r)
        \/ Complete(r)

SpecIndex == Init /\ [][NextIndex]_vars

(***************************************************************************)
(* The classification helpers on addresses at the edges of the ranges: a   *)
(* request with no headers arrives from each address and /ip handles it    *)
(***************************************************************************)

\* String(d) for one digit
DigitChar(d) == <<"0", "1", "2", "3", "4", "5", "6", "7", "8", "9">>[d + 1]

\* String(n)
RECURSIVE Decimal(_)
Decimal(n) == IF n < 10 THEN <<DigitChar(n)>> ELSE Append(Decimal(n \div 10), DigitChar(n % 10))

\* `${a}.${b}.${c}.${d}`
Dotted(a, b, c, d) ==
    Decimal(a) \o <<".">> \o Decimal(b) \o <<".">> \o Decimal(c) \o <<".">> \o Decimal(d)

\* first octets at and around 10, 127, 169, 172 and 192
FirstOctets == {9, 10, 11, 126, 127, 128, 168, 169, 170, 171, 172, 173, 191, 192, 193}

\* second octets at and around 16, 31, 168 and 254
SecondOctets == {0, 15, 16, 17, 31, 32, 167, 168, 169, 253, 254, 255}

\* third and fourth octets
LastOctets == {<<0, 0>>, <<0, 1>>, <<255, 255>>}

BoundaryIPv4 ==
    {Dotted(a, b, cd[1], cd[2]) : a \in FirstOctets, b \in SecondOctets, cd \in LastOctets}

\* ::, fc00::1, fd00::1 and 1:: beside the IPv6 addresses of the requests above
BoundaryIPv6 ==
    { <<":", ":">>, <<"f", "c", "0", "0", ":", ":", "1">>, <<"f", "d", "0", "0", ":", ":", "1">>,
      <<"1", ":", ":">>, IP6__1, IP6_fe80__1, IP6_2001_db8__1, IP6_2001_db8_0_0_0_0_0_1 }

\* a request with no headers from peer
FromPeer(route, peer) == MakeRequest(route, [n \in HeaderNames |-> Undefined], peer)

\* the first handler has a request from one of the addresses to handle
InitClassify ==
    /\ ENABLE_FALLBACK \in BOOLEAN
    /\ pc = [r \in Requests |-> "idle"]
    /\ \E peer \in BoundaryIPv4 \cup BoundaryIPv6 :
          req = [r \in Requests |-> IF r = 1 THEN FromPeer("/ip", peer) ELSE NoRequest]
    /\ ipInfo = [r \in Requests |-> InitialResult]
    /\ invoked = [r \in Requests |-> FALSE]
    /\ service = [r \in Requests |-> 0]
    /\ timer = [r \in Requests |-> "none"]
    /\ ip = [r \in Requests |-> Undefined]
    /\ outbound = [r \in Requests |-> <<>>]
    /\ fallbackIP = [r \in Requests |-> Undefined]
    /\ response = [r \in Requests |-> NoResponse]

\* app.get('/ip') called with the request that arrived
GetIpArrived(r) ==
    /\ pc[r] = "idle"
    /\ req[r].route = "/ip"
    /\ IpRouteOn(r, req[r])

NextClassify ==
    \E r \in Requests :
        \/ GetIpArrived(r)
        \/ FetchResolves(r)
        \/ FetchRejects(r)
        \/ AbortTimerFires(r)
        \/ TextResolves(r)
        \/ TextRejects(r)
        \/ CheckBody(r)
        \/ Complete(r)

SpecClassify == InitClassify /\ [][NextClassify]_vars

(***************************************************************************)
(* Requests in flight together: a handler is called whenever it is idle,   *)
(* while others await their lookup                                         *)
(***************************************************************************)

\* the peers of the requests in flight together
ConcurrentPeers == {IP_192_168_1_9, IP6__1, IP6_Mapped_203_0_113_5}

ConcurrentGetRoot(r) ==
    pc[r] = "idle" /\ \E peer \in ConcurrentPeers : IpRouteOn(r, FromPeer("/", peer))

ConcurrentGetIp(r) ==
    pc[r] = "idle" /\ \E peer \in ConcurrentPeers : IpRouteOn(r, FromPeer("/ip", peer))

ConcurrentGetIpPlain(r) ==
    pc[r] = "idle" /\ \E peer \in ConcurrentPeers : IpRouteOn(r, FromPeer("/ip/plain", peer))

ConcurrentGetIpv4(r) ==
    /\ pc[r] = "idle"
    /\ \E peer \in ConcurrentPeers : FamilyRouteOn(r, FromPeer("/ipv4", peer), "IPv4", FALSE)

ConcurrentGetIpv6(r) ==
    /\ pc[r] = "idle"
    /\ \E peer \in ConcurrentPeers : FamilyRouteOn(r, FromPeer("/ipv6", peer), "IPv6", FALSE)

ConcurrentGetIpv4Plain(r) ==
    /\ pc[r] = "idle"
    /\ \E peer \in ConcurrentPeers :
          FamilyRouteOn(r, FromPeer("/ipv4/plain", peer), "IPv4", TRUE)

ConcurrentGetIpv6Plain(r) ==
    /\ pc[r] = "idle"
    /\ \E peer \in ConcurrentPeers :
          FamilyRouteOn(r, FromPeer("/ipv6/plain", peer), "IPv6", TRUE)

NextConcurrent ==
    \E r \in Requests :
        \/ ConcurrentGetRoot(r)
        \/ ConcurrentGetIp(r)
        \/ ConcurrentGetIpPlain(r)
        \/ ConcurrentGetIpv4(r)
        \/ ConcurrentGetIpv6(r)
        \/ ConcurrentGetIpv4Plain(r)
        \/ ConcurrentGetIpv6Plain(r)
        \/ FetchResolves(r)
        \/ FetchRejects(r)
        \/ AbortTimerFires(r)
        \/ TextResolves(r)
        \/ TextRejects(r)
        \/ CheckBody(r)
        \/ Complete(r)

SpecConcurrent == Init /\ [][NextConcurrent]_vars

(***************************************************************************)
(* Properties                                                              *)
(***************************************************************************)

\* the handler of r has been called and has not completed
Called(r) == pc[r] # "idle"

\* version and primary agree with the slots of info
Agrees(info) ==
    /\ info.version = "IPv4" => info.ipv4 # Undefined /\ info.primary = info.ipv4
    /\ info.version = "IPv6" => info.ipv6 # Undefined /\ info.primary = info.ipv6

\* C1: in the result a route holds and serializes (the extractor's, or the one
\* overwritten with the fallback address), and in the result object after every
\* prefix of the calls of processIP, version IPv4 means ipv4 is set and is primary,
\* and version IPv6 means ipv6 is set and is primary.
C1_VersionPrimaryAgree ==
    \A r \in Requests :
        Called(r) =>
            /\ Agrees(ipInfo[r])
            /\ \A n \in 0..Len(Candidates(req[r])) : Agrees(ResultAfter(req[r], n))
            /\ (pc[r] = "sent" /\ req[r].route \in {"/", "/ip"}) =>
                  Agrees([ ipv4 |-> response[r].body.ipv4, ipv6 |-> response[r].body.ipv6,
                           primary |-> response[r].body.ip,
                           version |-> response[r].body.version ])

\* C1 happens: a response after the fallback overwrite, with an IPv6 address kept
\* beside it, for a request of two candidates
C1_Witness ==
    \E r \in Requests :
        /\ pc[r] = "sent"
        /\ req[r].route = "/"
        /\ fallbackIP[r] # Undefined
        /\ Len(Candidates(req[r])) >= 2
        /\ response[r].body.version = "IPv4"
        /\ response[r].body.ipv6 # Undefined

\* primary is the sentinel, and version Unknown, exactly when both slots are unset
UnknownIffUnset(info) ==
    /\ info.primary = Unknown <=> (info.ipv4 = Undefined /\ info.ipv6 = Undefined)
    /\ info.version = "Unknown" <=> info.primary = Unknown

\* C2: in the result of a request, after any number of candidates and after the
\* fallback overwrite, primary is "Unknown" (and version Unknown) if and only if
\* ipv4 and ipv6 are both unset.
C2_UnknownIffBothUnset ==
    \A r \in Requests :
        Called(r) =>
            /\ UnknownIffUnset(ipInfo[r])
            /\ \A n \in 0..Len(Candidates(req[r])) : UnknownIffUnset(ResultAfter(req[r], n))

\* C2 happens: a request whose candidates classify as nothing is answered Unknown
C2_Witness ==
    \E r \in Requests :
        /\ pc[r] = "sent"
        /\ req[r].route = "/ip"
        /\ Len(Candidates(req[r])) >= 1
        /\ response[r].body.ip = Unknown
        /\ response[r].body.ipv4 = Undefined
        /\ response[r].body.ipv6 = Undefined

\* the sources of candidates, most trusted first
SourceOrder ==
    << "cfConnectingIP", "trueClientIP", "realIP", "xClientIP", "xClusterClientIP",
       "forwarded", "xOriginalForwardedFor", "remoteAddress" >>

\* the first comma-separated piece of a header value
FirstPiece(header) == IF header = Undefined THEN Undefined ELSE Split(header, ",")[1]

\* the address source i of request q carries: for the forwarded-for headers their
\* first entry, trimmed
SourceValue(q, i) ==
    IF SourceOrder[i] \in {"forwarded", "xOriginalForwardedFor"}
    THEN Trim(FirstPiece(q[SourceOrder[i]]))
    ELSE q[SourceOrder[i]]

\* the family an address classifies as
FamilyOf(c) ==
    IF c = Undefined \/ c = Unknown THEN "none"
    ELSE IF isIPv4(cleanIP(c)) THEN "IPv4"
    ELSE IF isIPv6(c) THEN "IPv6"
    ELSE "none"

\* the form an address is stored in
Stored(c) == IF FamilyOf(c) = "IPv4" THEN cleanIP(c) ELSE c

\* whether a classified address is private or local
IsPrivate(c) ==
    IF FamilyOf(c) = "IPv4" THEN isPrivateOrLocalIPv4(Stored(c)) ELSE isPrivateOrLocalIPv6(c)

\* the slot of a family
Slot(info, family) == IF family = "IPv4" THEN info.ipv4 ELSE info.ipv6

\* sources i before j carry addresses of one family and one tier
SameFamilyAndTier(q, i, j) ==
    /\ i < j
    /\ FamilyOf(SourceValue(q, i)) # "none"
    /\ FamilyOf(SourceValue(q, i)) = FamilyOf(SourceValue(q, j))
    /\ IsPrivate(SourceValue(q, i)) = IsPrivate(SourceValue(q, j))

\* source i is the first of its family and tier, and no source of its family is of
\* a better tier
FirstOfBestTier(q, i) ==
    \A k \in 1..Len(SourceOrder) :
        FamilyOf(SourceValue(q, k)) = FamilyOf(SourceValue(q, i)) =>
            /\ IsPrivate(SourceValue(q, i)) => IsPrivate(SourceValue(q, k))
            /\ (k < i) => IsPrivate(SourceValue(q, k)) # IsPrivate(SourceValue(q, i))

\* held is not taken from source j over source i: it is the address of j only if
\* a source no later than i carries that address too; and it is the address of i
\* when i is the first source of the best tier
EarlierWins(q, i, j, held) ==
    /\ held = Stored(SourceValue(q, j)) =>
          \E k \in 1..i : Stored(SourceValue(q, k)) = held
    /\ FirstOfBestTier(q, i) => held = Stored(SourceValue(q, i))

TruncateForwarded(q) ==
    [q EXCEPT !.forwarded = FirstPiece(@), !.xOriginalForwardedFor = FirstPiece(@)]

\* q carries x-forwarded-for: 10.0.0.5, 8.8.8.8 and nothing else
OnlyForwardedPrivateThenPublic(q) ==
    /\ q.forwarded = IP_10_0_0_5 \o <<",", " ">> \o IP_8_8_8_8
    /\ \A i \in 1..Len(SourceOrder) : SourceOrder[i] # "forwarded" => q[SourceOrder[i]] = Undefined

\* C4, for the getClientIP that reads seven headers: the extractor's result is the
\* result for the request with every forwarded-for header cut down to its first
\* entry, and x-forwarded-for: 10.0.0.5, 8.8.8.8 alone gives primary = ipv4 = 10.0.0.5.
C4_FirstEntryOnly ==
    \A r \in Requests :
        (Called(r) /\ fallbackIP[r] = Undefined) =>
            /\ ipInfo[r] = getClientIP(TruncateForwarded(req[r]))
            /\ OnlyForwardedPrivateThenPublic(req[r]) =>
                  ipInfo[r].ipv4 = IP_10_0_0_5 /\ ipInfo[r].primary = IP_10_0_0_5

\* C4, for the getClientIP of src/index.ts: only the first entry of x-forwarded-for
\* is considered, so the extractor's result is the result for the request with the
\* header cut down to its first entry, and x-forwarded-for: 10.0.0.5, 8.8.8.8 alone
\* gives primary = ipv4 = 10.0.0.5.
C4_FirstEntryOnlyIndex ==
    \A r \in Requests :
        Called(r) =>
            /\ ipInfo[r] = getClientIPIndex(TruncateForwarded(req[r]))
            /\ OnlyForwardedPrivateThenPublic(req[r]) =>
                  ipInfo[r].ipv4 = IP_10_0_0_5 /\ ipInfo[r].primary = IP_10_0_0_5

\* c is "::ffff:" followed by a valid dotted quad
IsMapped(c) ==
    /\ StartsWith(c, <<":", ":", "f", "f", "f", "f", ":">>)
    /\ isIPv4(Substring(c, 7))

\* C5: a candidate "::ffff:" + dotted quad is classified IPv4 and stored without the
\* prefix: the call of processIP for it leaves ipv6 alone and leaves in ipv4 either
\* what was there or the quad; alone in a request it gives ipv4 = primary = the quad,
\* version IPv4 and no ipv6.
C5_MappedIsIPv4 ==
    \A r \in Requests :
        Called(r) =>
            \A n \in 1..Len(Candidates(req[r])) :
                LET c == Candidates(req[r])[n]
                    before == ResultAfter(req[r], n - 1)
                    after == ResultAfter(req[r], n)
                IN  IsMapped(c) =>
                        /\ after.ipv6 = before.ipv6
                        /\ after.ipv4 \in {before.ipv4, Substring(c, 7)}
                        /\ after.version \in {before.version, "IPv4"}
                        /\ ipInfo[r].ipv6 # c
                        /\ (Len(Candidates(req[r])) = 1 /\ fallbackIP[r] = Undefined) =>
                              ipInfo[r] = [ ipv4 |-> Substring(c, 7), ipv6 |-> Undefined,
                                            primary |-> Substring(c, 7), version |-> "IPv4" ]

\* C5 happens: peer address ::ffff:203.0.113.5 and no headers is answered 203.0.113.5
C5_Witness ==
    \E r \in Requests :
        /\ pc[r] = "sent"
        /\ req[r].route = "/"
        /\ Candidates(req[r]) = <<IP6_Mapped_203_0_113_5>>
        /\ response[r].body.ipv4 = IP_203_0_113_5
        /\ response[r].body.version = "IPv4"
        /\ response[r].body.ipv6 = Undefined

\* the routes whose handlers call getPublicIPFallback
IpRoutes == {"/", "/ip", "/ip/plain"}

\* fallback is enabled, the result holds an address, and no held address is public
TriggerCondition(info) ==
    /\ ENABLE_FALLBACK
    /\ info.ipv4 # Undefined \/ info.ipv6 # Undefined
    /\ info.ipv4 # Undefined => isPrivateOrLocalIPv4(info.ipv4)
    /\ info.ipv6 # Undefined => isPrivateOrLocalIPv6(info.ipv6)

\* C6 as stated: the resolver is invoked for a request if and only if fallback is
\* enabled, the extractor's result holds an address and holds no public address.
C6_InvokedIff ==
    \A r \in Requests :
        Called(r) => (invoked[r] <=> TriggerCondition(getClientIP(req[r])))

\* C6 as far as the code goes: for a request to /, /ip or /ip/plain the resolver is
\* invoked if and only if fallback is enabled, the extractor's result holds an address
\* and holds no public address; for a request to any other route it is never invoked.
C6_InvokedIffOnIpRoutes ==
    \A r \in Requests :
        Called(r) =>
            (invoked[r] <=> (req[r].route \in IpRoutes /\ TriggerCondition(getClientIP(req[r]))))

\* C6 happens: the resolver is invoked for a result holding a private IPv4 and a
\* local IPv6 address
C6_Witness ==
    \E r \in Requests :
        /\ pc[r] = "fetch"
        /\ invoked[r]
        /\ ipInfo[r].ipv4 # Undefined
        /\ ipInfo[r].ipv6 # Undefined

\* what a route of IpRoutes sends for a result
Serialized(route, info) ==
    IF route = "/ip/plain"
    THEN [status |-> 200, type |-> "text", body |-> [text |-> info.primary]]
    ELSE [ status |-> 200, type |-> "json",
           body |-> [ip |-> info.primary, ipv4 |-> info.ipv4, ipv6 |-> info.ipv6,
                     version |-> info.version] ]

\* C7: when the resolver returned an address F the response carries ipv4 = F,
\* primary = F, version IPv4 and the ipv6 the extractor produced; when it returned
\* nothing the response carries the extractor's result in all four fields.
C7_FallbackEffect ==
    \A r \in Requests :
        (pc[r] = "sent" /\ invoked[r]) =>
            LET extracted == getClientIP(req[r])
                expected == IF fallbackIP[r] # Undefined
                            THEN [ ipv4 |-> fallbackIP[r], ipv6 |-> extracted.ipv6,
                                   primary |-> fallbackIP[r], version |-> "IPv4" ]
                            ELSE extracted
            IN  /\ ipInfo[r] = expected
                /\ response[r] = Serialized(req[r].route, expected)

\* C7 happens: the resolver returned an address for a request whose extractor
\* result held an IPv6 address, and the response is sent
C7_Witness ==
    \E r \in Requests :
        /\ pc[r] = "sent"
        /\ invoked[r]
        /\ req[r].route = "/ip"
        /\ fallbackIP[r] = IP_198_51_100_7
        /\ getClientIP(req[r]).ipv6 # Undefined
        /\ getClientIP(req[r]).ipv4 # Undefined
        /\ response[r].body.ipv6 = getClientIP(req[r]).ipv6

\* C8: each attempt is abandoned no later than its per-attempt timeout, at whatever
\* stage the service stalls: while a handler awaits the response or its body, the
\* timer of the attempt is armed.
C8_PendingAttemptBounded ==
    \A r \in Requests : pc[r] \in {"fetch", "text"} => timer[r] = "armed"

\* the same under fairness of the timer: every invocation of the resolver eventually
\* returns; a handler awaiting a fetch, a body or the test of a body reaches its response
ResolverReturns ==
    \A r \in Requests : (pc[r] \in {"fetch", "text", "check"}) ~> (pc[r] = "sent")

\* C9: the resolver never raises an error to its caller: whatever the outcome of each
\* attempt it returns an accepted address or nothing, no handler is left rejected,
\* and /, /ip and /ip/plain answer with status 200.
C9_NeverRaises ==
    \A r \in Requests :
        /\ pc[r] # "rejected"
        /\ (pc[r] = "sent" /\ invoked[r]) =>
              fallbackIP[r] = Undefined \/ Accepted(fallbackIP[r])
        /\ (pc[r] = "sent" /\ req[r].route \in IpRoutes) => response[r].status = 200

\* C9 happens: all three attempts ended without a result, the last one by its timer,
\* and the request is answered 200
C9_Witness ==
    \E r \in Requests :
        /\ pc[r] = "sent"
        /\ invoked[r]
        /\ outbound[r] = <<1, 2, 3>>
        /\ timer[r] = "fired"
        /\ fallbackIP[r] = Undefined
        /\ response[r].status = 200

\* the services of an invocation are 1..k in order, each once
InOrder(r) ==
    /\ Len(outbound[r]) <= NumServices
    /\ \A i \in 1..Len(outbound[r]) : outbound[r][i] = i
    /\ pc[r] \in {"fetch", "text", "check"} => service[r] = Len(outbound[r])
    /\ fallbackIP[r] # Undefined => pc[r] = "sent" /\ Accepted(fallbackIP[r])

\* a step of the handler of r attempts and returns as the claim says
SequentialStep(r) ==
    /\ (outbound[r] # <<>> /\ outbound'[r] # outbound[r] /\ outbound'[r] # <<>>) =>
          /\ pc[r] \in {"fetch", "text"} \/ (pc[r] = "check" /\ ~Accepted(ip[r]))
          /\ outbound'[r] = Append(outbound[r], service[r] + 1)
          /\ fallbackIP'[r] = Undefined
    /\ (pc[r] = "check" /\ Accepted(ip[r])) =>
          /\ pc'[r] = "sent"
          /\ fallbackIP'[r] = ip[r]
          /\ outbound'[r] = outbound[r]
    /\ (fallbackIP'[r] # fallbackIP[r] /\ fallbackIP'[r] # Undefined) =>
          pc[r] = "check" /\ fallbackIP'[r] = ip[r]
    /\ pc[r] = "sent" => outbound'[r] \in {outbound[r], <<>>}

\* C10: the services are attempted one after the other in the order of the list,
\* service k+1 only after the attempt on service k ended without an accepted result,
\* each at most once, none after an accepted one, and the value returned is the body
\* of the first accepted response.
C10_SequentialInOrder == [][\A r \in Requests : InOrder(r)' /\ SequentialStep(r)]_vars

\* C10 happens: the first service failed and the second one's body was returned
C10_Witness ==
    \E r \in Requests :
        /\ pc[r] = "sent"
        /\ outbound[r] = <<1, 2>>
        /\ fallbackIP[r] = IP_8_8_8_8

\* the first two octets of a dotted quad lie in a private or local range
PrivateOctets(a, b) ==
    \/ a = 127
    \/ a = 10
    \/ a = 172 /\ b \in 16..31
    \/ a = 192 /\ b = 168
    \/ a = 169 /\ b = 254

\* address is four groups of digits of value at most 255 whose first two values lie
\* outside the private and local ranges
PublicQuad(address) ==
    LET groups == Split(address, ".")
    IN  /\ Len(groups) = 4
        /\ \A i \in 1..4 :
              /\ Len(groups[i]) \in 1..3
              /\ \A j \in 1..Len(groups[i]) : groups[i][j] \in Digits
              /\ ToNumber(groups[i]) <= 255
        /\ ~PrivateOctets(ToNumber(groups[1]), ToNumber(groups[2]))

\* C11: whatever the services answer, an address returned by the resolver is a valid
\* IPv4 address that is not private/local, after a successful fallback the reported
\* primary is that public IPv4 address, and a body that is private or not IPv4 is
\* never returned: the body under test is returned only if it is a public dotted quad.
C11_FallbackIsPublicIPv4 ==
    \A r \in Requests :
        /\ fallbackIP[r] # Undefined =>
              /\ PublicQuad(fallbackIP[r])
              /\ fallbackIP[r] \notin {IP_10_0_0_5, <<"<", "h", "t", "m", "l", ">">>}
              /\ invoked[r] /\ pc[r] = "sent"
              /\ ipInfo[r].primary = fallbackIP[r]
              /\ ipInfo[r].version = "IPv4"
              /\ req[r].route = "/ip/plain" => response[r].body.text = fallbackIP[r]
              /\ req[r].route # "/ip/plain" => response[r].body.ip = fallbackIP[r]
        /\ (pc[r] = "sent" /\ invoked[r] /\ fallbackIP[r] = Undefined) =>
              outbound[r] = <<1, 2, 3>>

\* C11 happens: the first two services were skipped and the third one's public
\* address, read from a body with a trailing newline, is the primary of the response
C11_Witness ==
    \E r \in Requests :
        /\ pc[r] = "sent"
        /\ outbound[r] = <<1, 2, 3>>
        /\ fallbackIP[r] = IP_198_51_100_7
        /\ response[r].status = 200
        /\ req[r].route = "/"
        /\ response[r].body.ip = IP_198_51_100_7

\* the response of a single-family endpoint maps the extractor's address of that
\* family: 404 with the message when it is unset, 200 with the address otherwise
FamilyStatusMapping(resp, plain, address, message) ==
    /\ resp.status \in {200, 404}
    /\ resp.status = 404 <=> address = Undefined
    /\ resp.status = 404 =>
          IF plain THEN resp.body.text = message ELSE resp.body.error = message
    /\ resp.status = 200 =>
          IF plain THEN resp.body.text = address ELSE resp.body.address = address

\* C12: /ipv4 and /ipv4/plain answer 404 with "No IPv4 address found" exactly when the
\* extractor's result has no ipv4 and otherwise 200 with that ipv4, /ipv6 and
\* /ipv6/plain likewise for ipv6, and /, /ip and /ip/plain always answer 200, also
\* when primary is "Unknown".
C12_StatusMapping ==
    \A r \in Requests :
        pc[r] = "sent" =>
            LET extracted == getClientIP(req[r])
                route == req[r].route
            IN  /\ route = "/ipv4" =>
                      FamilyStatusMapping(response[r], FALSE, extracted.ipv4,
                                          "No IPv4 address found")
                /\ route = "/ipv4/plain" =>
                      FamilyStatusMapping(response[r], TRUE, extracted.ipv4,
                                          "No IPv4 address found")
                /\ route = "/ipv6" =>
                      FamilyStatusMapping(response[r], FALSE, extracted.ipv6,
                                          "No IPv6 address found")
                /\ route = "/ipv6/plain" =>
                      FamilyStatusMapping(response[r], TRUE, extracted.ipv6,
                                          "No IPv6 address found")
                /\ route \in IpRoutes => response[r].status = 200
                /\ (route = "/ip/plain" /\ extracted.primary = Unknown) =>
                      response[r].body.text = Unknown

\* C12 happens: /ipv4/plain answers 404 with the message to a request whose only
\* address is an IPv6 one
C12_Witness ==
    \E r \in Requests :
        /\ pc[r] = "sent"
        /\ req[r].route = "/ipv4/plain"
        /\ getClientIP(req[r]).ipv6 # Undefined
        /\ response[r].status = 404
        /\ response[r].body.text = "No IPv4 address found"

\* the sources of q that carry an address that classifies, by their place in the order
ClassifiedSources(q) ==
    {i \in 1..Len(SourceOrder) : FamilyOf(SourceValue(q, i)) # "none"}

\* the first source of q, in processing order, among the set of sources S
FirstOf(S) == CHOOSE i \in S : \A k \in S : i <= k

Rank(c) ==
    IF FamilyOf(c) = "IPv4" THEN (IF IsPrivate(c) THEN 3 ELSE 4)
    ELSE IF FamilyOf(c) = "IPv6" THEN (IF IsPrivate(c) THEN 1 ELSE 2)
    ELSE 0

\* the sources of q whose address no other source of q outranks
BestRanked(q) ==
    {i \in ClassifiedSources(q) :
        \A k \in ClassifiedSources(q) : Rank(SourceValue(q, k)) <= Rank(SourceValue(q, i))}

C14_PrivateRanges ==
    /\ \A a \in FirstOctets, b \in SecondOctets, cd \in LastOctets :
          LET address == Dotted(a, b, cd[1], cd[2])
          IN  \A r \in Requests :
                  (Called(r) /\ req[r].remoteAddress = address) =>
                      /\ isIPv4(address)
                      /\ isPrivateOrLocalIPv4(address) <=> PrivateOctets(a, b)
                      /\ hasOnlyPrivateIPs(getClientIP(req[r])) <=> PrivateOctets(a, b)
                      /\ ENABLE_FALLBACK => (invoked[r] <=> PrivateOctets(a, b))
    /\ \A r \in Requests :
          Called(r) =>
              /\ req[r].remoteAddress \in {Dotted(172, 16, 0, 1), Dotted(172, 31, 255, 255)} =>
                    isPrivateOrLocalIPv4(req[r].remoteAddress)
              /\ req[r].remoteAddress \in {Dotted(172, 15, 255, 255), Dotted(172, 32, 0, 0)} =>
                    ~isPrivateOrLocalIPv4(req[r].remoteAddress)

\* C14 happens: the request from 172.31.255.255 has the resolver called for it
C14_Witness ==
    \E r \in Requests :
        /\ pc[r] = "fetch"
        /\ invoked[r]
        /\ req[r].remoteAddress = Dotted(172, 31, 255, 255)
        /\ ipInfo[r].ipv4 = Dotted(172, 31, 255, 255)

\* C15: isPrivateOrLocalIPv6 is true of every IPv6-classified address that is ::1, or
\* starts with fc or fd, or starts with fe80:, or contains "::" anywhere, so that such
\* an address alone never suppresses the fallback.
C15_DoubleColonIsLocal ==
    \A r \in Requests :
        Called(r) =>
            LET address == req[r].remoteAddress
            IN  ( /\ FamilyOf(address) = "IPv6"
                  /\ \/ address = IP6__1
                     \/ StartsWith(address, <<"f", "c">>)
                     \/ StartsWith(address, <<"f", "d">>)
                     \/ StartsWith(address, <<"f", "e", "8", "0", ":">>)
                     \/ Includes(address, <<":", ":">>) ) =>
                    /\ isPrivateOrLocalIPv6(address)
                    /\ ENABLE_FALLBACK => invoked[r]

\* C16: if at least one candidate of the request classifies as IPv4, the extractor's
\* result has version IPv4 and primary = ipv4, wherever the IPv6 candidates stand in
\* the order and whatever the tiers; every IPv4 candidate leaves version IPv4, and
\* once primary holds an IPv4 value no IPv6 candidate replaces it.
C16_IPv4Preferred ==
    \A r \in Requests :
        Called(r) =>
            LET q == req[r]
                extracted == getClientIP(q)
            IN  /\ (\E i \in ClassifiedSources(q) : FamilyOf(SourceValue(q, i)) = "IPv4") =>
                      /\ extracted.version = "IPv4"
                      /\ extracted.ipv4 # Undefined
                      /\ extracted.primary = extracted.ipv4
                /\ \A n \in 1..Len(Candidates(q)) :
                      LET c == Candidates(q)[n]
                          before == ResultAfter(q, n - 1)
                          after == ResultAfter(q, n)
                      IN  /\ FamilyOf(c) = "IPv4" => after.version = "IPv4"
                          /\ before.version = "IPv4" =>
                                /\ after.version = "IPv4"
                                /\ FamilyOf(c) = "IPv6" => after.primary = before.primary

\* C16 happens: cf-connecting-ip: 2001:db8::1 from peer 192.168.1.9 is answered with
\* the private IPv4 address as primary and the IPv6 address beside it
C16_Witness ==
    \E r \in Requests :
        /\ pc[r] = "sent"
        /\ req[r].route = "/"
        /\ req[r].cfConnectingIP = IP6_2001_db8__1
        /\ req[r].remoteAddress = IP_192_168_1_9
        /\ response[r].body.ip = IP_192_168_1_9
        /\ response[r].body.version = "IPv4"
        /\ response[r].body.ipv6 = IP6_2001_db8__1

\* the sources of q whose address is of the family
OfFamily(q, family) ==
    {i \in ClassifiedSources(q) : FamilyOf(SourceValue(q, i)) = family}

\* the sources of q whose address is a public one of the family
PublicOfFamily(q, family) ==
    {i \in OfFamily(q, family) : ~IsPrivate(SourceValue(q, i))}

\* whether a value held in the slot of the family is private or local
HeldPrivate(family, held) ==
    IF family = "IPv4" THEN isPrivateOrLocalIPv4(held) ELSE isPrivateOrLocalIPv6(held)

\* the calls of processIP for q that change the slot of the family
SlotChanges(q, family) ==
    {n \in 1..Len(Candidates(q)) :
        Slot(ResultAfter(q, n), family) # Slot(ResultAfter(q, n - 1), family)}

\* C17: after all candidates the slot of a family holds the first public candidate of
\* the family in processing order if one is public, otherwise the first candidate of
\* the family, otherwise it is unset; a slot changes only from unset to set or from a
\* private value to a public one, at most twice, and a public value is never replaced.
C17_SlotFold ==
    \A r \in Requests :
        Called(r) =>
            LET q == req[r]
                extracted == getClientIP(q)
            IN  \A family \in {"IPv4", "IPv6"} :
                    /\ Slot(extracted, family) =
                          IF PublicOfFamily(q, family) # {}
                          THEN Stored(SourceValue(q, FirstOf(PublicOfFamily(q, family))))
                          ELSE IF OfFamily(q, family) # {}
                          THEN Stored(SourceValue(q, FirstOf(OfFamily(q, family))))
                          ELSE Undefined
                    /\ \A n \in SlotChanges(q, family) :
                          LET before == Slot(ResultAfter(q, n - 1), family)
                              after == Slot(ResultAfter(q, n), family)
                          IN  /\ after # Undefined
                              /\ \/ before = Undefined
                                 \/ HeldPrivate(family, before) /\ ~HeldPrivate(family, after)
                    /\ Cardinality(SlotChanges(q, family)) <= 2

\* C17 happens: 10.0.0.5, then 8.8.8.8, then 203.0.113.5 from the peer: the slot was
\* set, then changed to the public address, and the later public address left it alone
C17_Witness ==
    \E r \in Requests :
        /\ pc[r] = "sent"
        /\ req[r].route = "/ipv4"
        /\ req[r].cfConnectingIP = IP_10_0_0_5
        /\ req[r].realIP = IP_8_8_8_8
        /\ req[r].remoteAddress = IP6_Mapped_203_0_113_5
        /\ Cardinality(SlotChanges(req[r], "IPv4")) = 2
        /\ response[r].body.address = IP_8_8_8_8

\* everything the handler of q holds
Local(q) ==
    << pc[q], req[q], ipInfo[q], invoked[q], service[q], timer[q], ip[q], outbound[q],
       fallbackIP[q], response[q] >>

\* the response of a route for request q, given whether its own lookup was made and
\* what it returned
ExpectedResponse(q, looked, returned) ==
    LET extracted == getClientIP(q)
        family == IF q.route \in {"/ipv4", "/ipv4/plain"} THEN "IPv4" ELSE "IPv6"
        plain == q.route \in {"/ipv4/plain", "/ipv6/plain"}
        address == Slot(extracted, family)
        message == IF family = "IPv4" THEN "No IPv4 address found"
                                      ELSE "No IPv6 address found"
    IN  IF q.route \in IpRoutes
        THEN Serialized(q.route,
                        IF looked /\ returned # Undefined
                        THEN [ ipv4 |-> returned, ipv6 |-> extracted.ipv6,
                               primary |-> returned, version |-> "IPv4" ]
                        ELSE extracted)
        ELSE [ status |-> IF address = Undefined THEN 404 ELSE 200,
               type |-> IF plain THEN "text" ELSE "json",
               body |-> IF address = Undefined
                        THEN (IF plain THEN [text |-> message] ELSE [error |-> message])
                        ELSE (IF plain THEN [text |-> address] ELSE [address |-> address]) ]

\* a step is the step of one handler and leaves what the others hold as it is; the
\* response a handler sends is the one for its own request and its own lookup; the
\* address a lookup returns is the body its own attempt read
OwnStep ==
    /\ \E r \in Requests : \A q \in Requests \ {r} : Local(q)' = Local(q)
    /\ \A r \in Requests :
          /\ pc'[r] = "sent" =>
                LET expected == ExpectedResponse(req'[r], invoked'[r], fallbackIP'[r])
                IN  /\ response'[r].status = expected.status
                    /\ response'[r].type = expected.type
                    /\ response'[r].body = expected.body
          /\ (fallbackIP'[r] # fallbackIP[r] /\ fallbackIP'[r] # Undefined) =>
                fallbackIP'[r] = ip[r]
          /\ (pc'[r] # "idle" /\ fallbackIP'[r] = Undefined) => ipInfo'[r] = getClientIP(req'[r])

FamilyRoutes == {"/ipv4", "/ipv6", "/ipv4/plain", "/ipv6/plain"}

\* the address a single-family response reports, unset for a 404
Reported(resp) ==
    IF resp.status = 404 THEN Undefined
    ELSE IF resp.type = "text" THEN resp.body.text
    ELSE resp.body.address

\* C19: for the same headers, peer address and service outcomes, the ipv4 value that
\* /ipv4 and /ipv4/plain report equals the ipv4 field that / and /ip report, and
\* likewise for ipv6: the fallback overwrite is applied on every route.
C19_EndpointsAgree ==
    \A r, q \in Requests :
        ( /\ pc[r] = "sent"
          /\ pc[q] = "sent"
          /\ req[r].route \in {"/", "/ip"}
          /\ req[q].route \in FamilyRoutes
          /\ [req[q] EXCEPT !.route = req[r].route] = req[r] ) =>
            Reported(response[q]) =
                IF req[q].route \in {"/ipv4", "/ipv4/plain"}
                THEN response[r].body.ipv4
                ELSE response[r].body.ipv6

\* primary of a result is a private or local address
PrimaryPrivate(info) ==
    /\ info.primary # Unknown
    /\ HeldPrivate(info.version, info.primary)

\* a slot of a result holds a public address
HoldsPublic(info) ==
    \/ info.ipv4 # Undefined /\ ~isPrivateOrLocalIPv4(info.ipv4)
    \/ info.ipv6 # Undefined /\ ~isPrivateOrLocalIPv6(info.ipv6)

\* C20 as stated: with fallback enabled, whenever the extractor's result has a private
\* or local primary, the resolver is invoked on /, /ip and /ip/plain before the
\* response is sent, also when a public IPv6 address is held beside a private IPv4
\* primary.
C20_PrivatePrimaryInvokes ==
    \A r \in Requests :
        ( /\ Called(r)
          /\ ENABLE_FALLBACK
          /\ req[r].route \in IpRoutes
          /\ PrimaryPrivate(getClientIP(req[r])) ) => invoked[r]

\* C20 amended: with fallback enabled, whenever the extractor's result has a private
\* or local primary and holds no public address, the resolver is invoked on /, /ip and
\* /ip/plain before the response is sent; when the result holds a private IPv4 primary
\* together with a public IPv6 address, the resolver is not invoked and the private
\* primary is reported.
C20_PrivateOnlyInvokes ==
    \A r \in Requests :
        ( /\ Called(r)
          /\ ENABLE_FALLBACK
          /\ req[r].route \in IpRoutes
          /\ PrimaryPrivate(getClientIP(req[r])) ) =>
            LET extracted == getClientIP(req[r])
            IN  /\ invoked[r] <=> ~HoldsPublic(extracted)
                /\ HoldsPublic(extracted) =>
                      /\ extracted.version = "IPv4"
                      /\ ~isPrivateOrLocalIPv6(extracted.ipv6)
                      /\ pc[r] = "sent"
                      /\ ipInfo[r].primary = extracted.primary
                      /\ IF req[r].route = "/ip/plain"
                         THEN response[r].body.text = extracted.primary
                         ELSE response[r].body.ip = extracted.primary

\* C20 happens: cf-connecting-ip: 10.0.0.5 from peer 2001:db8:0:0:0:0:0:1 with fallback
\* enabled is answered 10.0.0.5 without a lookup
C20_Witness ==
    \E r \in Requests :
        /\ ENABLE_FALLBACK
        /\ pc[r] = "sent"
        /\ ~invoked[r]
        /\ req[r].route = "/"
        /\ req[r].cfConnectingIP = IP_10_0_0_5
        /\ req[r].remoteAddress = IP6_2001_db8_0_0_0_0_0_1
        /\ response[r].body.ip = IP_10_0_0_5
        /\ response[r].body.ipv6 = IP6_2001_db8_0_0_0_0_0_1

====
